---- MODULE Spec2Model ----
(***************************************************************************)
(* A model of four parts of edge-core-js:                                  *)
(*   - the worker tree of one context: the redux store, the context pixie  *)
(*     (its api leaf and its watcher leaf) and the exchange pixie with its *)
(*     rate-fetch rounds and its 30-second timer (specification Spec);     *)
(*   - the login-dump cleaners asLoginDump / asVoucherDump (SpecDump);     *)
(*   - the start of makeContext up to the INIT action (SpecBoot);          *)
(*   - the constructors of OtpError and PasswordError (SpecError).         *)
(* Every specification leaves the variables of the other parts alone.      *)
(***************************************************************************)
EXTENDS Integers, Sequences, FiniteSets, TLC

VARIABLES
  \* ---- the wall clock (Date.now / new Date), in milliseconds
  now,
  \* ---- the worker tree
  pc,               \* "attaching" until attachPixie has run the first update
  localUsers,       \* state.login.localUsers (an array reference)
  paused,           \* state.paused
  logSettings,      \* state.logSettings (an object reference)
  pluginsLocked,    \* state.plugins.locked
  exchangePairs,    \* payload of the last EXCHANGE_PAIRS_FETCHED action
  fetched,          \* number of EXCHANGE_PAIRS_FETCHED actions dispatched
  destroyed,        \* number of times the tree's destroy has run
  \* ---- context pixie
  api,              \* props.output.context.api: 0 is undefined, else an object id
  apiBuilt,         \* number of makeContextApi calls
  apiStopped,       \* the api leaf has returned stopUpdates
  apiClosed,        \* yaob close() has closed the api object
  apiReleases,      \* number of times close() released an open api object
  destroyError,     \* a destroy call threw
  lastLocalUsers, lastPaused, lastLogSettings,   \* the watcher's closure
  sent,             \* the last watcher evaluation called yaob update()
  \* ---- exchange pixie
  timeout,          \* the closure variable: 0 is undefined, else a timer handle
  timers,           \* every timer setTimeout has made, by handle
  inflight,         \* the doFetch calls awaiting Promise.all
  thenPending,      \* update chains whose .then callback has not run yet
  updating,         \* the promise update returned has not resolved yet
  lastRound,        \* the last completed fetch round
  \* ---- asLoginDump
  doc,              \* the raw document under validation
  result,           \* what asLoginDump returned or that it threw
  callTime,         \* the clock when asLoginDump was called
  \* ---- makeContext
  bpc,              \* position in makeContext
  opts,             \* the options passed in
  disk,             \* what io.disklet.getText('rateHintCache.json') does
  rateHintCache,    \* the local rateHintCache of makeContext
  initPayload,      \* the rateHintCache of the INIT action payload
  bootError,        \* makeContext rejected
  \* ---- OtpError / PasswordError
  resultsJson,      \* the server payload given to the constructor
  thrown            \* what `new OtpError` or `new PasswordError` gave

clockVars == <<now>>
storeVars == <<localUsers, paused, logSettings, pluginsLocked, exchangePairs, fetched>>
contextVars == <<api, apiBuilt, apiStopped, apiClosed, apiReleases, destroyError,
                 lastLocalUsers, lastPaused, lastLogSettings, sent>>
exchangeVars == <<timeout, timers, inflight, thenPending, updating, lastRound>>
treeVars == <<pc, destroyed, storeVars, contextVars, exchangeVars>>
dumpVars == <<doc, result, callTime>>
bootVars == <<bpc, opts, disk, rateHintCache, initPayload, bootError>>
errorVars == <<resultsJson, thrown>>
vars == <<clockVars, treeVars, dumpVars, bootVars, errorVars>>

(***************************************************************************)
(* Bounds                                                                  *)
(***************************************************************************)
MaxClock == 1          \* the clock takes MaxClock + 1 readings
MaxDestroys == 2       \* close() / destroy is called at most this often

ClockStep == 1000      \* the readings are whole seconds, so Date.now() / 1000 is exact

Tick ==
  /\ now < MaxClock * ClockStep
  /\ now' = now + ClockStep

(***************************************************************************)
(* The redux state.  References are compared with !==, so an array or an   *)
(* object is a token; "undefined" is the value of an unassigned `let`.     *)
(***************************************************************************)
Undefined == "undefined"
LocalUsersRefs == {"users1", "users2"}
PausedValues == {"false", "true"}
LogSettingsRefs == {"log1", "log2"}

\* plugins.rate: the names Object.keys returns, in order, and what each
\* plugin's fetchRates returns when it succeeds.
RatePlugins == <<"pluginA", "pluginB">>
PluginPairs(name) ==
  IF name = "pluginA"
    THEN << [fromCurrency |-> "BTC", toCurrency |-> "iso:USD", rate |-> 9000],
            [fromCurrency |-> "ETH", toCurrency |-> "iso:USD", rate |-> 200] >>
    ELSE << [fromCurrency |-> "BTC", toCurrency |-> "iso:EUR", rate |-> 8000] >>

\* What one plugin.fetchRates(hintPairs) call does.
Outcomes == {"ok", "throws", "rejects"}
OutcomeMaps == [1..Len(RatePlugins) -> Outcomes]

(***************************************************************************)
(* The exchange pixie.  Its closure state is handled as one record, so     *)
(* that a handler which calls several steps in a row composes them.        *)
(***************************************************************************)
FetchInterval == 30000     \* setTimeout(doFetch, 30 * 1000)

Ex ==
  [timeout |-> timeout, timers |-> timers, inflight |-> inflight,
   thenPending |-> thenPending, updating |-> updating, lastRound |-> lastRound]

SetEx(e) ==
  /\ timeout' = e.timeout
  /\ timers' = e.timers
  /\ inflight' = e.inflight
  /\ thenPending' = e.thenPending
  /\ updating' = e.updating
  /\ lastRound' = e.lastRound

NoRound ==
  [done |-> FALSE, locked |-> FALSE, outcomes |-> <<>>, dispatched |-> FALSE,
   payload |-> <<>>]

\* The async arrow function of the map: a synchronous throw of fetchRates is
\* caught and gives []; the promise fetchRates returns is returned without
\* await, so its rejection leaves the try block and rejects the arrow's promise.
PluginCall(name, outcome) ==
  CASE outcome = "ok"      -> [settled |-> "fulfilled", value |-> PluginPairs(name)]
    [] outcome = "throws"  -> [settled |-> "fulfilled", value |-> <<>>]
    [] outcome = "rejects" -> [settled |-> "rejected", value |-> <<>>]

\* Promise.all rejects when one of its promises rejects.
AllFulfilled(calls) == \A i \in DOMAIN calls : calls[i].settled = "fulfilled"

\* The pairs of one list, each with its source and the timestamp.
TagPairs(list, source, timestamp) ==
  [k \in 1..Len(list) |->
     [fromCurrency |-> list[k].fromCurrency, toCurrency |-> list[k].toCurrency,
      rate |-> list[k].rate, source |-> source, timestamp |-> timestamp]]

\* The two nested loops of doFetch: the lists in the order of pluginNames.
RECURSIVE CollectPairs(_, _, _)
CollectPairs(calls, i, timestamp) ==
  IF i > Len(calls) THEN <<>>
  ELSE TagPairs(calls[i].value, RatePlugins[i], timestamp)
         \o CollectPairs(calls, i + 1, timestamp)

\* doFetch up to its await: it returns at once without plugins, else it
\* calls every plugin and waits for Promise.all.
DoFetch(e, origin, locked, outcomes) ==
  IF ~locked
    THEN [e EXCEPT !.thenPending = IF origin = "update" THEN @ + 1 ELSE @,
                   !.lastRound = [NoRound EXCEPT !.done = TRUE]]
    ELSE [e EXCEPT !.inflight =
            Append(@, [origin |-> origin, outcomes |-> outcomes,
                       calls |-> [i \in 1..Len(RatePlugins) |->
                                    PluginCall(RatePlugins[i], outcomes[i])]])]

\* The outcomes to consider for a doFetch call: without locked plugins no
\* plugin is called, and nothing is chosen.
NotCalled == [i \in 1..Len(RatePlugins) |-> "ok"]
FetchOutcomes(locked) == IF locked THEN OutcomeMaps ELSE {NotCalled}
UpdateOutcomes(e, locked) ==
  IF e.updating \/ e.timeout # 0 THEN {NotCalled} ELSE FetchOutcomes(locked)

\* Mutant: update without the `timeout == null` test.
ExchangeUpdateNoTest(e, locked, outcomes) ==
  IF e.updating THEN e
  ELSE DoFetch([e EXCEPT !.updating = TRUE], "update", locked, outcomes)

\* update(props) of the exchange pixie.  redux-pixies does not call update
\* again while the promise a previous call returned is pending.
ExchangeUpdate(e, locked, outcomes) ==
  IF e.updating THEN e
  ELSE IF e.timeout = 0
    THEN DoFetch([e EXCEPT !.updating = TRUE], "update", locked, outcomes)
    ELSE e

\* timeout = setTimeout(doFetch, 30 * 1000), the .then callback of update.
SetTimeout(e) ==
  [e EXCEPT !.timers = Append(@, [state |-> "armed", delay |-> FetchInterval,
                                  releases |-> 0]),
            !.timeout = Len(e.timers) + 1]

\* clearTimeout(handle): cancels a pending timer, ignores anything else.
ClearTimeout(ts, handle) ==
  IF handle # 0 /\ ts[handle].state = "armed"
    THEN [ts EXCEPT ![handle].state = "cleared", ![handle].releases = @ + 1]
    ELSE ts

\* destroy() of the exchange pixie.
ExchangeDestroy(e) == [e EXCEPT !.timers = ClearTimeout(e.timers, e.timeout)]

RemoveAt(s, i) == SubSeq(s, 1, i - 1) \o SubSeq(s, i + 1, Len(s))

(***************************************************************************)
(* The context pixie: the api leaf and the watcher leaf.                   *)
(***************************************************************************)
Api == [api |-> api, apiBuilt |-> apiBuilt, apiStopped |-> apiStopped]

SetApi(a) ==
  /\ api' = a.api
  /\ apiBuilt' = a.apiBuilt
  /\ apiStopped' = a.apiStopped

\* Mutant: update() does not return stopUpdates.
ApiUpdateNoStop(a) ==
  [api |-> a.apiBuilt + 1, apiBuilt |-> a.apiBuilt + 1, apiStopped |-> FALSE]

\* One evaluation of the api leaf by the tree: a leaf that has returned
\* stopUpdates is skipped; update() publishes a new object made by
\* makeContextApi and returns stopUpdates.
ApiUpdate(a) ==
  IF a.apiStopped THEN a
  ELSE [api |-> a.apiBuilt + 1, apiBuilt |-> a.apiBuilt + 1, apiStopped |-> TRUE]

Watch ==
  [lastLocalUsers |-> lastLocalUsers, lastPaused |-> lastPaused,
   lastLogSettings |-> lastLogSettings, sent |-> FALSE]

SetWatch(w) ==
  /\ lastLocalUsers' = w.lastLocalUsers
  /\ lastPaused' = w.lastPaused
  /\ lastLogSettings' = w.lastLogSettings
  /\ sent' = w.sent

\* Mutant: the watcher does not compare and reports every evaluation.
WatchedAlways(w, users, pause, log) == TRUE

\* The condition of the watcher's if: one of the three fields is not the
\* value recorded at the previous evaluation.
WatchedChanged(w, users, pause, log) ==
  \/ w.lastLocalUsers # users
  \/ w.lastPaused # pause
  \/ w.lastLogSettings # log

\* One evaluation of the watcher against the state (users, pause, log) and
\* the api object its props show.
Watcher(w, users, pause, log, seenApi) ==
  IF WatchedChanged(w, users, pause, log)
    THEN [lastLocalUsers |-> users, lastPaused |-> pause, lastLogSettings |-> log,
          sent |-> (w.sent \/ seenApi # 0)]
    ELSE w

\* destroy() of the api leaf: yaob close() of the published object.  close
\* of undefined throws; close of a closed object changes nothing.
ApiDestroy ==
  /\ destroyError' = (destroyError \/ api = 0)
  /\ apiClosed' = (apiClosed \/ api # 0)
  /\ apiReleases' = IF api # 0 /\ ~apiClosed THEN apiReleases + 1 ELSE apiReleases

\* A step in which the watcher is not evaluated sends nothing.
WatchIdle ==
  /\ UNCHANGED <<lastLocalUsers, lastPaused, lastLogSettings>>
  /\ sent' = FALSE

ContextIdle ==
  /\ UNCHANGED <<api, apiBuilt, apiStopped, apiClosed, apiReleases, destroyError>>
  /\ WatchIdle

(***************************************************************************)
(* The worker tree.                                                        *)
(***************************************************************************)
TreeAlive == pc = "running" /\ destroyed = 0

\* attachPixie: the first update of every leaf, in the order of the tree.
\* The watcher's first evaluation may run before the api object shows in its
\* props; the output change then evaluates it once more.
Attach ==
  /\ pc = "attaching"
  /\ pc' = "running"
  /\ \E outcomes \in UpdateOutcomes(Ex, pluginsLocked), early \in BOOLEAN :
       LET a == ApiUpdate(Api)
           w1 == Watcher(Watch, localUsers, paused, logSettings,
                         IF early THEN 0 ELSE a.api)
           w2 == Watcher(w1, localUsers, paused, logSettings, a.api)
       IN /\ SetApi(a)
          /\ SetWatch(w2)
          /\ SetEx(ExchangeUpdate(Ex, pluginsLocked, outcomes))
  /\ UNCHANGED <<now, destroyed, storeVars, apiClosed, apiReleases, destroyError,
                 dumpVars, bootVars, errorVars>>

\* A state transition of the store followed, while the tree is attached, by
\* the evaluation of every leaf.
Dispatch ==
  /\ \E users \in LocalUsersRefs, pause \in PausedValues, log \in LogSettingsRefs,
        locked \in {pluginsLocked, TRUE} :
     \E outcomes \in UpdateOutcomes(Ex, locked) :
       /\ <<users, pause, log, locked>> # <<localUsers, paused, logSettings, pluginsLocked>>
       /\ localUsers' = users
       /\ paused' = pause
       /\ logSettings' = log
       /\ pluginsLocked' = locked
       /\ IF TreeAlive
            THEN LET a == ApiUpdate(Api)
                 IN /\ SetApi(a)
                    /\ SetWatch(Watcher(Watch, users, pause, log, a.api))
                    /\ SetEx(ExchangeUpdate(Ex, locked, outcomes))
            ELSE /\ UNCHANGED <<api, apiBuilt, apiStopped, exchangeVars>>
                 /\ WatchIdle
  /\ UNCHANGED <<now, pc, destroyed, exchangePairs, fetched, apiClosed, apiReleases,
                 destroyError, dumpVars, bootVars, errorVars>>

\* Promise.all of a doFetch call settles.  When every promise fulfilled,
\* doFetch dispatches EXCHANGE_PAIRS_FETCHED, a state transition like any
\* other; a doFetch called by update then resolves or rejects the chain,
\* whose .catch swallows the rejection.
FetchComplete ==
  \E i \in DOMAIN inflight :
   \E outcomes \in UpdateOutcomes([Ex EXCEPT !.inflight = RemoveAt(@, i)], pluginsLocked) :
    LET r == inflight[i]
        ok == AllFulfilled(r.calls)
        pairs == CollectPairs(r.calls, 1, now \div ClockStep)
        round == [done |-> TRUE, locked |-> TRUE, outcomes |-> r.outcomes,
                  dispatched |-> ok, payload |-> IF ok THEN pairs ELSE <<>>]
        e1 == [Ex EXCEPT !.inflight = RemoveAt(@, i), !.lastRound = round]
        a == IF ok /\ TreeAlive THEN ApiUpdate(Api) ELSE Api
        e2 == IF ok /\ TreeAlive THEN ExchangeUpdate(e1, pluginsLocked, outcomes) ELSE e1
        e3 == [e2 EXCEPT !.thenPending = IF r.origin = "update" THEN @ + 1 ELSE @]
    IN /\ exchangePairs' = IF ok THEN pairs ELSE exchangePairs
       /\ fetched' = IF ok THEN fetched + 1 ELSE fetched
       /\ SetApi(a)
       /\ IF ok /\ TreeAlive
            THEN SetWatch(Watcher(Watch, localUsers, paused, logSettings, a.api))
            ELSE WatchIdle
       /\ SetEx(e3)
       /\ UNCHANGED <<now, pc, destroyed, localUsers, paused, logSettings,
                      pluginsLocked, apiClosed, apiReleases, destroyError,
                      dumpVars, bootVars, errorVars>>

\* The .then callback of update arms the timer; the promise update returned
\* resolves, and the tree may call update again.
ChainThen ==
  /\ thenPending > 0
  /\ \E outcomes \in UpdateOutcomes(SetTimeout(Ex), pluginsLocked) :
       LET e1 == SetTimeout([Ex EXCEPT !.thenPending = @ - 1, !.updating = FALSE])
           e2 == IF TreeAlive THEN ExchangeUpdate(e1, pluginsLocked, outcomes) ELSE e1
       IN SetEx(e2)
  /\ ContextIdle
  /\ UNCHANGED <<now, pc, destroyed, storeVars, dumpVars, bootVars, errorVars>>

\* An armed timer fires and calls doFetch.
TimerFire ==
  \E h \in DOMAIN timers, outcomes \in FetchOutcomes(pluginsLocked) :
    /\ timers[h].state = "armed"
    /\ SetEx(DoFetch([Ex EXCEPT !.timers[h].state = "fired"], "timer",
                     pluginsLocked, outcomes))
    /\ ContextIdle
    /\ UNCHANGED <<now, pc, destroyed, storeVars, dumpVars, bootVars, errorVars>>

\* props.close(): closePixie destroys every leaf, then CLOSE is dispatched
\* to a store no leaf listens to any more.
Close ==
  /\ pc = "running"
  /\ destroyed < MaxDestroys
  /\ destroyed' = destroyed + 1
  /\ ApiDestroy
  /\ SetEx(ExchangeDestroy(Ex))
  /\ WatchIdle
  /\ UNCHANGED <<now, pc, storeVars, api, apiBuilt, apiStopped, dumpVars, bootVars, errorVars>>

ClockTick ==
  /\ pc = "running"
  /\ Tick
  /\ ContextIdle
  /\ UNCHANGED <<pc, destroyed, storeVars, exchangeVars, dumpVars, bootVars, errorVars>>

(***************************************************************************)
(* Values of the other parts while a specification does not use them.      *)
(***************************************************************************)
TreeInit ==
  /\ pc = "attaching"
  /\ localUsers = "users1"
  /\ paused = "false"
  /\ logSettings = "log1"
  /\ pluginsLocked = FALSE
  /\ exchangePairs = <<>>
  /\ fetched = 0
  /\ destroyed = 0
  /\ api = 0
  /\ apiBuilt = 0
  /\ apiStopped = FALSE
  /\ apiClosed = FALSE
  /\ apiReleases = 0
  /\ destroyError = FALSE
  /\ lastLocalUsers = Undefined
  /\ lastPaused = Undefined
  /\ lastLogSettings = Undefined
  /\ sent = FALSE
  /\ timeout = 0
  /\ timers = <<>>
  /\ inflight = <<>>
  /\ thenPending = 0
  /\ updating = FALSE
  /\ lastRound = NoRound

DumpIdle ==
  /\ doc = <<>>
  /\ result = <<>>
  /\ callTime = 0

BootIdle ==
  /\ bpc = "idle"
  /\ opts = <<>>
  /\ disk = <<>>
  /\ rateHintCache = <<>>
  /\ initPayload = <<>>
  /\ bootError = FALSE

ErrorIdle ==
  /\ resultsJson = <<>>
  /\ thrown = <<>>

(***************************************************************************)
(* Spec: the worker tree of one context.                                   *)
(***************************************************************************)
Init == now = 0 /\ TreeInit /\ DumpIdle /\ BootIdle /\ ErrorIdle

Next ==
  \/ Attach
  \/ Dispatch
  \/ FetchComplete
  \/ ChainThen
  \/ TimerFire
  \/ Close
  \/ ClockTick

Spec == Init /\ [][Next]_vars

(***************************************************************************)
(* The login-dump cleaners.  A raw JavaScript value is a record of its     *)
(* kind k and its content v; the property of an object that is missing     *)
(* reads as undefined.  A cleaner returns [k |-> "ok", v |-> value] or     *)
(* Threw.                                                                  *)
(***************************************************************************)
JsUndefined == [k |-> "undefined", v |-> 0]
JsNull == [k |-> "null", v |-> 0]
JsString(s) == [k |-> "string", v |-> s]
JsNumber(n) == [k |-> "number", v |-> n]
JsArray(seq) == [k |-> "array", v |-> seq]
JsObject(fields) == [k |-> "object", v |-> fields]
JsDate(ms) == [k |-> "date", v |-> ms]
JsBytes(bytes) == [k |-> "bytes", v |-> bytes]

Returned(value) == [k |-> "ok", v |-> value]
Threw == [k |-> "throw", v |-> 0]
NotCalledYet == [k |-> "none", v |-> 0]

\* new Date(text): the time value of the texts of the model, -1 for NaN.
DateParse(text) ==
  CASE text = "1970-01-01T00:01:00.000Z" -> 60000
    [] text = "1970-01-02T00:00:00.000Z" -> 86400000
    [] OTHER -> -1

\* base64.parse(text): the bytes of the texts of the model; other texts are
\* not base64.
IsBase64(text) == text \in {"AQID", "BAUG", ""}
Base64Parse(text) ==
  CASE text = "AQID" -> <<1, 2, 3>>
    [] text = "BAUG" -> <<4, 5, 6>>
    [] OTHER -> <<>>

asString(raw) == IF raw.k = "string" THEN Returned(raw) ELSE Threw

asNumber(raw) == IF raw.k = "number" THEN Returned(raw) ELSE Threw

asDate(raw) ==
  IF raw.k = "string" /\ DateParse(raw.v) >= 0 THEN Returned(JsDate(DateParse(raw.v)))
  ELSE IF raw.k = "date" THEN Returned(raw)
  ELSE Threw

asBase64(raw) ==
  IF raw.k = "string" /\ IsBase64(raw.v) THEN Returned(JsBytes(Base64Parse(raw.v)))
  ELSE Threw

\* asOptional(cleaner, fallback): null and undefined give the fallback, any
\* other value what the cleaner makes of it (cleaned).
asOptional(cleaned, fallback, raw) ==
  IF raw.k \in {"undefined", "null"} THEN Returned(fallback) ELSE cleaned

\* The elements asArray hands to its cleaner.
Elements(raw) == IF raw.k = "array" THEN raw.v ELSE <<>>

\* asArray(cleaner): every element is cleaned (cleaned[i] is what the cleaner
\* makes of element i), the first failure throws.
asArray(cleaned, raw) ==
  IF raw.k # "array" THEN Threw
  ELSE IF \A i \in DOMAIN cleaned : cleaned[i].k = "ok"
    THEN Returned([i \in DOMAIN cleaned |-> cleaned[i].v])
    ELSE Threw

\* Mutant: any text is accepted as a status.
asStatusAnyText(raw) == asString(raw)

\* asValue('pending', 'approved', 'rejected')
asStatus(raw) ==
  IF raw.k = "string" /\ raw.v \in {"pending", "approved", "rejected"}
    THEN Returned(raw) ELSE Threw

\* asObject(shape) of asVoucherDump: every field of the shape is cleaned.
asVoucherDump(raw) ==
  IF raw.k # "object" THEN Threw
  ELSE LET o == raw.v
           out == [loginId |-> asBase64(o.loginId),
                   voucherAuth |-> asBase64(o.voucherAuth),
                   voucherId |-> asString(o.voucherId),
                   created |-> asDate(o.created),
                   activates |-> asDate(o.activates),
                   status |-> asStatus(o.status),
                   ip |-> asString(o.ip),
                   ipDescription |-> asString(o.ipDescription),
                   deviceDescription |->
                     asOptional(asString(o.deviceDescription), JsUndefined,
                                o.deviceDescription)]
       IN IF \A f \in DOMAIN out : out[f].k = "ok"
            THEN Returned([f \in DOMAIN out |-> out[f].v])
            ELSE Threw

\* Mutant: created has no default.
asCreatedNoDefault(raw, clock) == asDate(raw)

\* created: raw => (raw == null ? new Date() : asDate(raw))
asCreated(raw, clock) ==
  IF raw.k \in {"undefined", "null"} THEN Returned(JsDate(clock)) ELSE asDate(raw)

\* Mutant: parentId is read from the document.
asParentIdFromInput(raw) == asOptional(asBase64(raw), JsUndefined, raw)

\* parentId: (): Uint8Array | void => undefined
asParentId(raw) == Returned(JsUndefined)

\* asLoginDump.  The fields of the shape that the model's documents never
\* carry (every one an asOptional) are left out of the records.
RECURSIVE asLoginDump(_, _)
asLoginDump(raw, clock) ==
  IF raw.k # "object" THEN Threw
  ELSE LET o == raw.v
           children ==
             asArray([i \in DOMAIN Elements(o.children) |->
                        asLoginDump(Elements(o.children)[i], clock)], o.children)
           vouchers ==
             asArray([i \in DOMAIN Elements(o.vouchers) |->
                        asVoucherDump(Elements(o.vouchers)[i])], o.vouchers)
           out == [appId |-> asString(o.appId),
                   created |-> asCreated(o.created, clock),
                   loginId |-> asBase64(o.loginId),
                   children |-> asOptional(children, <<>>, o.children),
                   parentId |-> asParentId(o.parentId),
                   otpTimeout |->
                     asOptional(asNumber(o.otpTimeout), JsUndefined, o.otpTimeout),
                   vouchers |-> asOptional(vouchers, <<>>, o.vouchers)]
       IN IF \A f \in DOMAIN out : out[f].k = "ok"
            THEN Returned([f \in DOMAIN out |-> out[f].v])
            ELSE Threw

(***************************************************************************)
(* The documents given to asLoginDump.                                     *)
(***************************************************************************)
MaxDepth == 2          \* levels of children below the root

GoodVoucher ==
  [loginId |-> JsString("AQID"), voucherAuth |-> JsString("BAUG"),
   voucherId |-> JsString("v1"), created |-> JsString("1970-01-01T00:01:00.000Z"),
   activates |-> JsString("1970-01-02T00:00:00.000Z"), status |-> JsString("pending"),
   ip |-> JsString("10.0.0.1"), ipDescription |-> JsString("office"),
   deviceDescription |-> JsUndefined]

VoucherDocs ==
  { JsObject(GoodVoucher),
    JsObject([GoodVoucher EXCEPT !.status = JsString("approved")]),
    JsObject([GoodVoucher EXCEPT !.status = JsString("cancelled")]),
    JsObject([GoodVoucher EXCEPT !.loginId = JsUndefined]) }

VoucherLists ==
  {JsUndefined, JsArray(<<>>)} \cup {JsArray(<<v>>) : v \in VoucherDocs}

GoodLeaf ==
  [appId |-> JsString("edge"), created |-> JsString("1970-01-01T00:01:00.000Z"),
   loginId |-> JsString("AQID"), children |-> JsUndefined, parentId |-> JsUndefined,
   otpTimeout |-> JsUndefined, vouchers |-> JsUndefined]

LeafDocs ==
  { JsObject(GoodLeaf),
    JsObject([GoodLeaf EXCEPT !.created = JsUndefined]),
    JsObject([GoodLeaf EXCEPT !.loginId = JsString("!!!")]),
    JsObject([GoodLeaf EXCEPT !.parentId = JsNumber(7)]),
    JsObject([GoodLeaf EXCEPT !.vouchers =
                JsArray(<<JsObject([GoodVoucher EXCEPT !.status = JsString("cancelled")])>>)]) }

\* The records nested below the root: leaves, and chains of one child.
RECURSIVE NestedDocs(_)
NestedDocs(depth) ==
  IF depth <= 1 THEN LeafDocs
  ELSE LeafDocs \cup
       {JsObject([GoodLeaf EXCEPT !.children = JsArray(<<c>>)]) : c \in NestedDocs(depth - 1)}

ChildLists ==
  {JsUndefined, JsArray(<<>>)}
    \cup {JsArray(<<c>>) : c \in NestedDocs(MaxDepth)}
    \cup {JsArray(<<JsObject(GoodLeaf), c>>) : c \in LeafDocs}

RootDocs ==
  { JsObject([appId |-> a, created |-> c, loginId |-> l, children |-> ch,
              parentId |-> p, otpTimeout |-> t, vouchers |-> vs]) :
      a \in {JsUndefined, JsString("edge"), JsNumber(7)},
      c \in {JsUndefined, JsNull, JsString("1970-01-02T00:00:00.000Z"), JsString("yesterday")},
      l \in {JsUndefined, JsString("AQID"), JsString("!!!"), JsNumber(7)},
      ch \in ChildLists,
      p \in {JsUndefined, JsString("BAUG"), JsNumber(7)},
      t \in {JsUndefined, JsNumber(3600)},
      vs \in VoucherLists }

(***************************************************************************)
(* SpecDump: one call of asLoginDump on a document, at some clock reading. *)
(***************************************************************************)
InitDump ==
  /\ now = 0
  /\ TreeInit
  /\ BootIdle
  /\ ErrorIdle
  /\ doc \in RootDocs
  /\ result = NotCalledYet
  /\ callTime = 0

DumpTick ==
  /\ result = NotCalledYet
  /\ Tick
  /\ UNCHANGED <<treeVars, dumpVars, bootVars, errorVars>>

Validate ==
  /\ result = NotCalledYet
  /\ callTime' = now
  /\ result' = asLoginDump(doc, now)
  /\ UNCHANGED <<now, doc, treeVars, bootVars, errorVars>>

NextDump == DumpTick \/ Validate

SpecDump == InitDump /\ [][NextDump]_vars

(***************************************************************************)
(* makeContext, from its option checks to the INIT action.                 *)
(***************************************************************************)
DefaultAuthServer == "https://login.edge.app"

\* authServer.endsWith('.edge.app') || authServer.endsWith('.edgetest.app'),
\* for the servers of the model.
AuthServers ==
  {"https://login.edge.app", "https://login.edgetest.app",
   "https://login.example.com", "https://edge.app.example.com"}
ValidAuthServer(authServer) ==
  authServer \in {"https://login.edge.app", "https://login.edgetest.app"}

\* What io.disklet.getText('rateHintCache.json') settles to.
RateHintTexts ==
  {"[]", "[{\"fromCurrency\":\"BTC\",\"toCurrency\":\"iso:USD\"}]",
   "{\"a\":1}", "[7]", "null", "", "not json"}
DiskOutcomes ==
  {[k |-> "missing", v |-> ""], [k |-> "ioError", v |-> ""]}
    \cup {[k |-> "text", v |-> t] : t \in RateHintTexts}

\* JSON.parse(text) for the texts of the model.
JsonParse(text) ==
  CASE text = "[]" -> Returned(JsArray(<<>>))
    [] text = "[{\"fromCurrency\":\"BTC\",\"toCurrency\":\"iso:USD\"}]" ->
         Returned(JsArray(<<JsObject([fromCurrency |-> JsString("BTC"),
                                      toCurrency |-> JsString("iso:USD")])>>))
    [] text = "{\"a\":1}" -> Returned(JsObject([a |-> JsNumber(1)]))
    [] text = "[7]" -> Returned(JsArray(<<JsNumber(7)>>))
    [] text = "null" -> Returned(JsNull)
    [] OTHER -> Threw

\* getText(...).then(text => JSON.parse(text)).catch(() => [])
LoadRateHintCache(outcome) ==
  IF outcome.k = "text" /\ JsonParse(outcome.v).k = "ok"
    THEN JsonParse(outcome.v).v
    ELSE JsArray(<<>>)

InitBoot ==
  /\ now = 0
  /\ TreeInit
  /\ DumpIdle
  /\ ErrorIdle
  /\ bpc = "start"
  /\ opts \in [authServer : AuthServers \cup {Undefined},
               apiKey : {Undefined, "key"}]
  /\ disk \in DiskOutcomes
  /\ rateHintCache = JsUndefined
  /\ initPayload = JsUndefined
  /\ bootError = FALSE

\* The destructuring of opts and the two checks that throw.
CheckOptions ==
  /\ bpc = "start"
  /\ LET authServer == IF opts.authServer = Undefined THEN DefaultAuthServer
                       ELSE opts.authServer
     IN IF ~ValidAuthServer(authServer) \/ opts.apiKey = Undefined
          THEN bpc' = "rejected" /\ bootError' = TRUE
          ELSE bpc' = "load" /\ bootError' = FALSE
  /\ UNCHANGED <<now, treeVars, dumpVars, errorVars, opts, disk, rateHintCache, initPayload>>

\* Load the rate hint cache from disk.
LoadHints ==
  /\ bpc = "load"
  /\ rateHintCache' = LoadRateHintCache(disk)
  /\ bpc' = "stashes"
  /\ UNCHANGED <<now, treeVars, dumpVars, errorVars, opts, disk, initPayload, bootError>>

\* redux.dispatch({ type: 'INIT', payload: { ..., rateHintCache, ... } })
DispatchInit ==
  /\ bpc = "stashes"
  /\ initPayload' = rateHintCache
  /\ bpc' = "init"
  /\ UNCHANGED <<now, treeVars, dumpVars, errorVars, opts, disk, rateHintCache, bootError>>

NextBoot == CheckOptions \/ LoadHints \/ DispatchInit

SpecBoot == InitBoot /\ [][NextBoot]_vars

(***************************************************************************)
(* The constructors of OtpError and PasswordError.                         *)
(***************************************************************************)
\* The fields of a payload object, each missing one reading as undefined.
\* asOtpErrorPayload and asPasswordErrorPayload are asObject shapes whose
\* fields are all optional.
asOtpErrorPayload(raw) ==
  IF raw.k # "object" THEN Threw
  ELSE LET o == raw.v
           out == [login_id |-> asOptional(asString(o.login_id), JsUndefined, o.login_id),
                   otp_reset_auth |->
                     asOptional(asString(o.otp_reset_auth), JsUndefined, o.otp_reset_auth),
                   otp_timeout_date |->
                     asOptional(asDate(o.otp_timeout_date), JsUndefined, o.otp_timeout_date),
                   reason |-> asOptional(asString(o.reason), JsUndefined, o.reason),
                   voucher_activates |->
                     asOptional(asDate(o.voucher_activates), JsUndefined, o.voucher_activates),
                   voucher_auth |->
                     asOptional(asBase64(o.voucher_auth), JsUndefined, o.voucher_auth),
                   voucher_id |-> asOptional(asString(o.voucher_id), JsUndefined, o.voucher_id)]
       IN IF \A f \in DOMAIN out : out[f].k = "ok"
            THEN Returned([f \in DOMAIN out |-> out[f].v])
            ELSE Threw

asPasswordErrorPayload(raw) ==
  IF raw.k # "object" THEN Threw
  ELSE LET wait == asOptional(asNumber(raw.v.wait_seconds), JsUndefined, raw.v.wait_seconds)
       IN IF wait.k = "ok" THEN Returned([wait_seconds |-> wait.v]) ELSE Threw

\* base64.stringify(bytes) for the byte strings of the model.
Base64Stringify(bytes) ==
  CASE bytes = <<1, 2, 3>> -> "AQID"
    [] bytes = <<4, 5, 6>> -> "BAUG"
    [] OTHER -> ""

\* errorNames
errorNames == [OtpError |-> "OtpError", PasswordError |-> "PasswordError"]

\* `x != null` of a cleaned field.
NotNull(value) == value.k \notin {"undefined", "null"}

\* Mutant: the payload is read without the try/catch.
OtpErrorNoCatch(json) ==
  LET reply == asOtpErrorPayload(json)
  IN IF reply.k # "ok" THEN Threw
     ELSE Returned([class |-> "OtpError", name |-> errorNames.OtpError,
                    type |-> errorNames.OtpError, message |-> "Invalid OTP token",
                    reason |-> IF reply.v.reason = JsString("ip") THEN "ip" ELSE "otp",
                    loginId |-> reply.v.login_id, resetToken |-> reply.v.otp_reset_auth,
                    resetDate |-> reply.v.otp_timeout_date,
                    voucherActivates |-> reply.v.voucher_activates,
                    voucherAuth |-> JsUndefined, voucherId |-> reply.v.voucher_id])

\* new OtpError(resultsJson): name, type and reason are set before the try
\* block; the block cleans the payload first and then copies what is there,
\* and whatever it throws is swallowed.
OtpError(json) ==
  LET base == [class |-> "OtpError", name |-> errorNames.OtpError,
               type |-> errorNames.OtpError, message |-> "Invalid OTP token",
               reason |-> "otp", loginId |-> JsUndefined, resetToken |-> JsUndefined,
               resetDate |-> JsUndefined, voucherActivates |-> JsUndefined,
               voucherAuth |-> JsUndefined, voucherId |-> JsUndefined]
      reply == asOtpErrorPayload(json)
  IN IF reply.k # "ok" THEN Returned(base)
     ELSE Returned(
       [base EXCEPT
          !.loginId = IF NotNull(reply.v.login_id) THEN reply.v.login_id ELSE @,
          !.resetToken = IF NotNull(reply.v.otp_reset_auth) THEN reply.v.otp_reset_auth ELSE @,
          !.reason = IF reply.v.reason = JsString("ip") THEN "ip" ELSE @,
          !.resetDate = IF NotNull(reply.v.otp_timeout_date)
                          THEN JsDate(reply.v.otp_timeout_date.v) ELSE @,
          !.voucherActivates = IF NotNull(reply.v.voucher_activates)
                                 THEN reply.v.voucher_activates ELSE @,
          !.voucherAuth = IF NotNull(reply.v.voucher_auth)
                            THEN JsString(Base64Stringify(reply.v.voucher_auth.v)) ELSE @,
          !.voucherId = IF NotNull(reply.v.voucher_id) THEN reply.v.voucher_id ELSE @])

\* new PasswordError(resultsJson)
PasswordError(json) ==
  LET base == [class |-> "PasswordError", name |-> errorNames.PasswordError,
               type |-> errorNames.PasswordError, message |-> "Invalid password",
               wait |-> JsUndefined]
      clean == asPasswordErrorPayload(json)
  IN IF clean.k # "ok" THEN Returned(base)
     ELSE Returned([base EXCEPT !.wait = clean.v.wait_seconds])

\* The server payloads: no payload, a payload that is no object, and objects
\* with each sub-field missing, well-formed or malformed.
PayloadObjects ==
  { JsObject([login_id |-> l, otp_reset_auth |-> a, otp_timeout_date |-> d,
              reason |-> r, voucher_activates |-> va, voucher_auth |-> vb,
              voucher_id |-> vi, wait_seconds |-> w]) :
      l \in {JsUndefined, JsString("AQID"), JsNumber(7)},
      a \in {JsUndefined, JsString("reset")},
      d \in {JsUndefined, JsString("1970-01-02T00:00:00.000Z"), JsString("yesterday")},
      r \in {JsUndefined, JsString("ip"), JsString("otp"), JsNumber(7)},
      va \in {JsUndefined, JsString("1970-01-01T00:01:00.000Z")},
      vb \in {JsUndefined, JsString("BAUG"), JsString("!!!")},
      vi \in {JsUndefined, JsString("v1")},
      w \in {JsUndefined, JsNumber(30), JsString("soon")} }

Payloads ==
  {JsUndefined, JsNull, JsString("ip"), JsNumber(7), JsArray(<<>>)} \cup PayloadObjects

(***************************************************************************)
(* SpecError: one error is constructed from a payload.                     *)
(***************************************************************************)
InitError ==
  /\ now = 0
  /\ TreeInit
  /\ DumpIdle
  /\ BootIdle
  /\ resultsJson \in Payloads
  /\ thrown = NotCalledYet

NewOtpError ==
  /\ thrown = NotCalledYet
  /\ thrown' = OtpError(resultsJson)
  /\ UNCHANGED <<now, treeVars, dumpVars, bootVars, resultsJson>>

NewPasswordError ==
  /\ thrown = NotCalledYet
  /\ thrown' = PasswordError(resultsJson)
  /\ UNCHANGED <<now, treeVars, dumpVars, bootVars, resultsJson>>

NextError == NewOtpError \/ NewPasswordError

SpecError == InitError /\ [][NextError]_vars

(***************************************************************************)
(* Claims about the worker tree (Spec).                                    *)
(***************************************************************************)
ArmedTimers(ts) == {h \in DOMAIN ts : ts[h].state = "armed"}

\* C1: once destroy has run, no EXCHANGE_PAIRS_FETCHED action is dispatched
\* and no timer is armed any more, whenever destroy happened.
C1_NothingAfterDestroy ==
  [][destroyed >= 1 => (fetched' = fetched /\ ArmedTimers(timers') = {})]_vars

\* C2: while the worker is alive, every attempt is followed by a next one a
\* fixed 30 seconds later: at any moment after the start an attempt is
\* running, or its timer is about to be armed, or a 30-second timer is armed.
C2_AlwaysNextAttempt ==
  TreeAlive =>
    \/ inflight # <<>>
    \/ thenPending > 0
    \/ \E h \in ArmedTimers(timers) : timers[h].delay = FetchInterval

\* The pairs the claim expects of a round: those of the plugins that
\* succeeded, in the order of the plugins, each with its plugin as source.
RECURSIVE C3_Expected(_, _)
C3_Expected(outcomes, i) ==
  IF i > Len(RatePlugins) THEN <<>>
  ELSE (IF outcomes[i] = "ok"
          THEN [k \in 1..Len(PluginPairs(RatePlugins[i])) |->
                  [fromCurrency |-> PluginPairs(RatePlugins[i])[k].fromCurrency,
                   toCurrency |-> PluginPairs(RatePlugins[i])[k].toCurrency,
                   rate |-> PluginPairs(RatePlugins[i])[k].rate,
                   source |-> RatePlugins[i]]]
          ELSE <<>>)
       \o C3_Expected(outcomes, i + 1)

C3_Untimed(payload) ==
  [k \in 1..Len(payload) |->
     [fromCurrency |-> payload[k].fromCurrency, toCurrency |-> payload[k].toCurrency,
      rate |-> payload[k].rate, source |-> payload[k].source]]

\* C3: a round with the plugins locked dispatches EXCHANGE_PAIRS_FETCHED with
\* exactly the pairs of the plugins that succeeded, whichever plugins failed
\* by throwing or by rejecting.
C3_FailingPluginsTolerated ==
  (lastRound.done /\ lastRound.locked) =>
    /\ lastRound.dispatched
    /\ C3_Untimed(lastRound.payload) = C3_Expected(lastRound.outcomes, 1)

\* C4: after destroy has run, once or twice, at any point of the start, no
\* error was raised, no timer of the worker is left armed, the api object is
\* closed, and nothing was released more than once.
C4_DestroySafe ==
  destroyed >= 1 =>
    /\ ~destroyError
    /\ ArmedTimers(timers) = {}
    /\ \A h \in DOMAIN timers : timers[h].releases <= 1
    /\ api # 0 => apiClosed
    /\ apiReleases <= 1

\* C5: the watcher sends the update notification in an evaluation only if one
\* of the three watched fields differs from the value recorded at the previous
\* evaluation and the api object exists; a transition that leaves the three
\* fields alone sends nothing.
C5_NotifyOnlyOnWatchedChange ==
  [][/\ sent' => /\ api' # 0
                 /\ \/ lastLocalUsers # localUsers'
                    \/ lastPaused # paused'
                    \/ lastLogSettings # logSettings'
     /\ (/\ pc = "running"
         /\ localUsers' = localUsers
         /\ paused' = paused
         /\ logSettings' = logSettings) => ~sent']_vars

\* A watched field changed after the start and the watcher notified.
C5_Witness ==
  /\ sent
  /\ pc = "running"
  /\ lastLocalUsers = "users2"
  /\ pluginsLocked

\* C6: the api leaf builds its output exactly once, on its first evaluation,
\* and returns stopUpdates; no later state transition replaces the object.
C6_ApiBuiltOnce ==
  [][/\ pc' = "running" => (api' # 0 /\ apiBuilt' = 1 /\ apiStopped')
     /\ api # 0 => api' = api]_vars

\* State transitions and a fetch round happened after the api was published.
C6_Witness ==
  /\ api # 0
  /\ apiStopped
  /\ fetched >= 1
  /\ lastPaused = "true"

(***************************************************************************)
(* Claims about asLoginDump (SpecDump).                                    *)
(***************************************************************************)
Validated == result # NotCalledYet

\* C7: created is the only required field with a default.  A document whose
\* created is absent or null, and which validates with a date in its place,
\* validates with created equal to the clock read during the call; a document
\* whose appId is not a string, or whose loginId is not base64 text, fails.
C7_CreatedDefaultsOthersFail ==
  Validated =>
    /\ (/\ doc.v.created.k \in {"undefined", "null"}
        /\ asLoginDump([doc EXCEPT !.v.created = JsString("1970-01-01T00:01:00.000Z")],
                       callTime).k = "ok")
         => (result.k = "ok" /\ result.v.created = JsDate(callTime))
    /\ doc.v.appId.k # "string" => result.k = "throw"
    /\ (doc.v.loginId.k # "string" \/ ~IsBase64(doc.v.loginId.v)) => result.k = "throw"

\* A document without created validated after the clock had moved.
C7_Witness ==
  /\ Validated
  /\ doc.v.created.k = "undefined"
  /\ doc.v.children.k = "array"
  /\ callTime > 0
  /\ result.k = "ok"
  /\ result.v.created = JsDate(callTime)

\* Every record below d, at any depth, validates on its own, and so does
\* every voucher of d and of the records below it, with a status that is one
\* of the three tokens.
RECURSIVE C8_NestedValid(_, _)
C8_NestedValid(d, clock) ==
  /\ \A i \in DOMAIN Elements(d.v.children) :
       /\ asLoginDump(Elements(d.v.children)[i], clock).k = "ok"
       /\ C8_NestedValid(Elements(d.v.children)[i], clock)
  /\ \A j \in DOMAIN Elements(d.v.vouchers) :
       /\ asVoucherDump(Elements(d.v.vouchers)[j]).k = "ok"
       /\ Elements(d.v.vouchers)[j].v.status \in
            {JsString("pending"), JsString("approved"), JsString("rejected")}

\* C8: validation of a login tree is all-or-nothing.  asLoginDump of the root
\* succeeds exactly when the root without its children and vouchers validates
\* and every nested record and voucher validates; when it fails it returns no
\* tree.
C8_AllOrNothing ==
  Validated =>
    /\ result.k = "ok" <=>
         /\ asLoginDump([doc EXCEPT !.v.children = JsUndefined,
                                    !.v.vouchers = JsUndefined], callTime).k = "ok"
         /\ C8_NestedValid(doc, callTime)
    /\ result.k # "ok" => result = Threw

\* The root alone is valid and a record two levels down is not: no tree.
C8_Witness ==
  /\ Validated
  /\ result = Threw
  /\ asLoginDump([doc EXCEPT !.v.children = JsUndefined], callTime).k = "ok"
  /\ doc.v.children.k = "array"
  /\ Len(doc.v.children.v) = 1
  /\ asLoginDump([doc.v.children.v[1] EXCEPT !.v.children = JsUndefined], callTime).k = "ok"
  /\ asLoginDump(doc.v.children.v[1], callTime).k = "throw"

\* The parentId of a cleaned record and of every record below it is unset.
RECURSIVE C9_ParentIdsUnset(_)
C9_ParentIdsUnset(tree) ==
  /\ tree.parentId = JsUndefined
  /\ \A i \in DOMAIN tree.children : C9_ParentIdsUnset(tree.children[i])

\* The document d with the parentId of every record set to p.
RECURSIVE C9_WithParentIds(_, _)
C9_WithParentIds(d, p) ==
  [d EXCEPT !.v.parentId = p,
            !.v.children =
               IF @.k = "array"
                 THEN JsArray([i \in DOMAIN @.v |-> C9_WithParentIds(@.v[i], p)])
                 ELSE @]

C9_ParentIdValues ==
  {JsUndefined, JsNull, JsString("BAUG"), JsString("!!!"), JsNumber(7), JsArray(<<>>)}

\* C9: every record asLoginDump produces has no parentId, and documents that
\* differ only in their parentId values, of whatever type, validate alike.
C9_ParentIdIgnored ==
  Validated =>
    /\ result.k = "ok" => C9_ParentIdsUnset(result.v)
    /\ \A p \in C9_ParentIdValues :
         asLoginDump(C9_WithParentIds(doc, p), callTime) = result

\* A document with a parentId of the wrong type, in the root and in a child,
\* validated.
C9_Witness ==
  /\ Validated
  /\ result.k = "ok"
  /\ doc.v.parentId = JsNumber(7)
  /\ doc.v.children.k = "array"
  /\ Len(doc.v.children.v) = 1
  /\ doc.v.children.v[1].v.parentId = JsNumber(7)

(***************************************************************************)
(* Claims about makeContext (SpecBoot).                                    *)
(***************************************************************************)
\* A list of rate hints: an array of objects with two currency texts.
C10_IsRateHintList(raw) ==
  /\ raw.k = "array"
  /\ \A i \in DOMAIN raw.v :
       /\ raw.v[i].k = "object"
       /\ {"fromCurrency", "toCurrency"} \subseteq DOMAIN raw.v[i].v
       /\ raw.v[i].v.fromCurrency.k = "string"
       /\ raw.v[i].v.toCurrency.k = "string"

\* C10: the rateHintCache of the INIT payload is a schema-valid list of rate
\* hints or the empty list, whatever the disk gives, and no outcome of the
\* read makes makeContext fail.
C10_RateHintCacheValidOrEmpty ==
  /\ bpc = "init" => C10_IsRateHintList(initPayload)
  /\ bootError =>
       \/ opts.apiKey = Undefined
       \/ opts.authServer # Undefined /\ ~ValidAuthServer(opts.authServer)

\* C12: the exchange worker runs one fetch cycle at a time: whatever the
\* interleaving of update calls and fetch completions, at most one doFetch
\* is in flight, at most one timer is armed, and an armed timer is the one
\* whose handle `timeout` holds.
C12_OneFetchCycle ==
  /\ Len(inflight) <= 1
  /\ Cardinality(ArmedTimers(timers)) <= 1
  /\ ArmedTimers(timers) \subseteq {timeout}
  /\ inflight # <<>> /\ inflight[1].origin = "update" => timeout = 0 /\ updating

\* The worker's own EXCHANGE_PAIRS_FETCHED dispatch has called update while
\* the cycle that dispatched it had not armed its timer yet, and no second
\* fetch was started.
C12_Witness ==
  /\ pc = "running"
  /\ destroyed = 0
  /\ pluginsLocked
  /\ fetched = 1
  /\ updating
  /\ thenPending = 1
  /\ timeout = 0
  /\ inflight = <<>>

(***************************************************************************)
(* Claims about the error constructors (SpecError).                        *)
(***************************************************************************)
\* A payload whose sub-fields are all missing or of their declared type.
C11_Optional(raw, kinds) == raw.k \in {"undefined", "null"} \cup kinds
C11_WellFormedOtp(json) ==
  /\ json.k = "object"
  /\ C11_Optional(json.v.login_id, {"string"})
  /\ C11_Optional(json.v.otp_reset_auth, {"string"})
  /\ C11_Optional(json.v.reason, {"string"})
  /\ C11_Optional(json.v.voucher_id, {"string"})
  /\ \A f \in {"otp_timeout_date", "voucher_activates"} :
       \/ C11_Optional(json.v[f], {})
       \/ json.v[f].k = "string" /\ DateParse(json.v[f].v) >= 0
  /\ \/ C11_Optional(json.v.voucher_auth, {})
     \/ json.v.voucher_auth.k = "string" /\ IsBase64(json.v.voucher_auth.v)

\* C11: constructing an OtpError or a PasswordError from any payload raises
\* no secondary error and gives an error named after its kind; the reason of
\* an OtpError is 'ip' when the payload is well-formed and says 'ip', and
\* 'otp' in every other case.
C11_ErrorsBuiltDefensively ==
  thrown # NotCalledYet =>
    /\ thrown.k = "ok"
    /\ thrown.v.name = thrown.v.class
    /\ thrown.v.class = "OtpError" =>
         thrown.v.reason =
           IF C11_WellFormedOtp(resultsJson) /\ resultsJson.v.reason = JsString("ip")
             THEN "ip" ELSE "otp"

\* A payload that says 'ip' but has a malformed sub-field gave an OtpError
\* with the reason 'otp'.
C11_Witness ==
  /\ thrown.k = "ok"
  /\ thrown.v.class = "OtpError"
  /\ resultsJson.k = "object"
  /\ resultsJson.v.reason = JsString("ip")
  /\ resultsJson.v.login_id = JsNumber(7)
  /\ thrown.v.reason = "otp"
  /\ thrown.v.name = "OtpError"

====
